---------------------------- MODULE Spec2Model ----------------------------
(* A model of mongosql/statements.py: the MongoDB-style statement classes    *)
(* (MongoProjection, MongoSort, MongoGroup, MongoCriteria, MongoJoin,        *)
(* MongoAggregate).  Every statement is an object built by __init__ from a   *)
(* JSON-shaped input and compiled by __call__ against a model's columns and  *)
(* relations.                                                                *)
(*                                                                           *)
(* Python values are modelled as tagged records:                             *)
(*   [t |-> "none"]                            None                          *)
(*   [t |-> "int",  n |-> 3]                   an int                        *)
(*   [t |-> "bool", n |-> 0 or 1]              False / True                  *)
(*   [t |-> "str",  s |-> <<"a", ",">>]        a string, its characters      *)
(*   [t |-> "list", items |-> <<...>>]         a list of values              *)
(*   [t |-> "dict", entries |-> <<[k, v]..>>]  a dict, as its items()        *)
(*   [t |-> "odict", entries |-> <<[k, v]..>>] an OrderedDict                *)
(* A plain dict has no order of its own: where the code's result follows the *)
(* iteration of a dict or a set, the result is modelled as a bag.            *)
EXTENDS Integers, Sequences, FiniteSets, Bags, TLC

VARIABLES
    cls,      \* the statement class under construction / compilation
    arg,      \* the argument given to __init__
    model,    \* the schema view: [columns, relations], never modified
    pc,       \* "new" -> "built" | "raised" -> "called"
    self,     \* the fields of the statement object
    built,    \* the fields of the statement object when __init__ returned
    ret,      \* what the last __call__ returned or raised
    callers   \* MongoAggregate only: the frames of the concurrent callers

vars == <<cls, arg, model, pc, self, built, ret, callers>>

-----------------------------------------------------------------------------
(* Bounds of the model.                                                      *)

MaxStrLen == 4
MaxListLen == 2
MaxEntries == 3

-----------------------------------------------------------------------------
(* Python values and helpers.                                                *)

None == [t |-> "none"]
PyInt(n) == [t |-> "int", n |-> n]
PyBool(b) == [t |-> "bool", n |-> IF b THEN 1 ELSE 0]
PyStr(s) == [t |-> "str", s |-> s]
PyList(items) == [t |-> "list", items |-> items]
PyDict(entries) == [t |-> "dict", entries |-> entries]
OrderedDict(entries) == [t |-> "odict", entries |-> entries]
Item(k, v) == [k |-> k, v |-> v]

Range(s) == {s[i] : i \in 1..Len(s)}

\* The strings over an alphabet of length at most n.
Strings(alphabet, n) == UNION {[1..k -> alphabet] : k \in 0..n}

\* The sequences over a set of length at most n.
SeqsUpTo(S, n) == UNION {[1..k -> S] : k \in 0..n}

Chars == {"a", "b", "c", ",", "+", "-"}
Letters == {"a", "b", "c"}

\* What a call returns or raises.
Returned(v) == [status |-> "ok", value |-> v]
Raised(exc) == [status |-> exc]
NoResult == [status |-> "none"]

\* The schema view.  Column b is array-typed.
ColumnNames == {<<"a">>, <<"b">>, <<"c">>}
ArrayColumns == {<<"b">>}
Column(name) == [name |-> name, is_array |-> name \in ArrayColumns]
RelationNames == {<<"a">>, <<"b">>, <<"c">>}

\* str.split(sep): the pieces between separators, empty pieces included.
SplitAt(s, sep) ==
    LET F[i \in 0..Len(s)] ==
            \* the pieces of the first i characters, the last one still open
            IF i = 0 THEN << <<>> >>
            ELSE LET p == F[i - 1]
                 IN  IF s[i] = sep THEN Append(p, <<>>)
                     ELSE [p EXCEPT ![Len(p)] = Append(@, s[i])]
    IN  F[Len(s)]

\* A split that forgets the separator: the whole string is one piece.
SplitWhole(s) == <<s>>

\* s.split(',')
Split(s) == SplitAt(s, ",")

\* ','.join(names): used to write a surface string.
RECURSIVE JoinNames(_)
JoinNames(names) ==
    IF Len(names) = 0 THEN <<>>
    ELSE IF Len(names) = 1 THEN names[1]
    ELSE names[1] \o <<",">> \o JoinNames(Tail(names))

\* `not x`: None, '', [], {}, 0 and False are falsy.
Falsy(x) ==
    CASE x.t = "none" -> TRUE
      [] x.t = "str" -> Len(x.s) = 0
      [] x.t = "list" -> Len(x.items) = 0
      [] x.t \in {"dict", "odict"} -> Len(x.entries) = 0
      [] x.t \in {"int", "bool"} -> x.n = 0
      [] OTHER -> FALSE

\* The entries of a dict as a mapping.  The keys of a dict are distinct.
Keys(entries) == {entries[i].k : i \in 1..Len(entries)}
Lookup(entries, key) == (CHOOSE i \in 1..Len(entries) : entries[i].k = key)

\* sum(d.values()) of int values
ValuesSum(entries) ==
    LET F[i \in 0..Len(entries)] == IF i = 0 THEN 0 ELSE F[i - 1] + entries[i].v.n
    IN  F[Len(entries)]

-----------------------------------------------------------------------------
(* MongoProjection                                                           *)

\* self.projection is a dict { field_name: 0|1 }: a function on its key set.
ProjectionSelf(mode, projection) ==
    [inclusion_mode |-> mode, projection |-> projection]

\* MongoProjection.__init__: the fields of the new object, or the exception.
MongoProjectionInit(projection) ==
    IF Falsy(projection)
    THEN Returned(ProjectionSelf(FALSE, <<>>))
    ELSE IF projection.t = "str"
    THEN LET signed == projection.s[1] \in {"-", "+"}
             mode == IF signed THEN projection.s[1] = "+" ELSE TRUE
             rest == IF signed THEN Tail(projection.s) ELSE projection.s
         IN  Returned(ProjectionSelf(mode,
                [k \in Range(Split(rest)) |-> IF mode THEN 1 ELSE 0]))
    ELSE IF projection.t = "list"
    THEN Returned(ProjectionSelf(TRUE,
            [k \in {projection.items[i].s : i \in 1..Len(projection.items)} |-> 1]))
    ELSE IF projection.t # "dict"
    THEN Raised("AssertionError")
    ELSE IF ValuesSum(projection.entries) \notin {0, Len(projection.entries)}
    THEN Raised("AssertionError")
    ELSE Returned(ProjectionSelf(
            \E i \in 1..Len(projection.entries) : projection.entries[i].v.n # 0,
            [k \in Keys(projection.entries) |->
                projection.entries[Lookup(projection.entries, k)].v.n]))

\* columns() with the exclusion test lost: the listed columns in either mode.
ProjectionColumnsListed(columns, projection, inclusion_mode) ==
    IF ~(DOMAIN projection \subseteq DOMAIN columns)
    THEN Raised("AssertionError")
    ELSE Returned(SetToBag({columns[name] : name \in DOMAIN projection}))

\* MongoProjection.columns: the columns to load, one for every dict key (include)
\* or for every model column that is no key (exclude), in the dict's order of
\* iteration.
MongoProjectionColumns(columns, projection, inclusion_mode) ==
    IF ~(DOMAIN projection \subseteq DOMAIN columns)
    THEN Raised("AssertionError")
    ELSE IF inclusion_mode
    THEN Returned(SetToBag({columns[name] : name \in DOMAIN projection}))
    ELSE Returned(SetToBag({columns[name] :
                                name \in DOMAIN columns \ DOMAIN projection}))

\* load_only(col)
LoadOnly(col) == [directive |-> "load_only", col |-> col]

\* map(load_only, bag)
MapLoadOnly(bag) ==
    LET img == {LoadOnly(x) : x \in DOMAIN bag}
    IN  [d \in img |->
            LET pre == {x \in DOMAIN bag : LoadOnly(x) = d}
                Sum[S \in SUBSET pre] ==
                    IF S = {} THEN 0
                    ELSE LET x == CHOOSE x \in S : TRUE
                         IN  bag[x] + Sum[S \ {x}]
            IN  Sum[pre]]

\* MongoProjection.options: load_only mapped over columns().
MongoProjectionOptions(columns, projection, inclusion_mode) ==
    LET cols == MongoProjectionColumns(columns, projection, inclusion_mode)
    IN  IF cols.status # "ok" THEN cols
        ELSE Returned(MapLoadOnly(cols.value))

\* MongoProjection.__call__
MongoProjectionCall(obj, m) ==
    MongoProjectionOptions(m.columns, obj.projection, obj.inclusion_mode)

-----------------------------------------------------------------------------
(* MongoSort and MongoGroup                                                  *)

\* OrderedDict(pairs): a key keeps the place of its first pair and takes the
\* value of its last.
OrderedDictOf(pairs) ==
    LET F[i \in 0..Len(pairs)] ==
            IF i = 0 THEN <<>>
            ELSE IF pairs[i].k \in Keys(F[i - 1])
            THEN [F[i - 1] EXCEPT ![Lookup(F[i - 1], pairs[i].k)].v = pairs[i].v]
            ELSE Append(F[i - 1], pairs[i])
    IN  F[Len(pairs)]

\* '<column>[<+|->]': [v[:-1], -1 if v[-1] == '-' else +1] if v[-1] in '+-'
\* else [v, +1].  The token is not empty.
SortToken(v) ==
    IF v[Len(v)] \in {"+", "-"}
    THEN Item(SubSeq(v, 1, Len(v) - 1), PyInt(IF v[Len(v)] = "-" THEN -1 ELSE 1))
    ELSE Item(v, PyInt(1))

\* MongoSort.__init__
MongoSortInit(sort_spec) ==
    LET spec1 == IF Falsy(sort_spec) THEN PyList(<<>>) ELSE sort_spec
        spec2 == IF spec1.t = "str"
                 THEN PyList([i \in 1..Len(Split(spec1.s)) |-> PyStr(Split(spec1.s)[i])])
                 ELSE spec1
        strings == /\ spec2.t = "list"
                   /\ \A i \in 1..Len(spec2.items) : spec2.items[i].t = "str"
    IN  IF strings /\ \E i \in 1..Len(spec2.items) : Len(spec2.items[i].s) = 0
        THEN Raised("IndexError")            \* v[-1] of an empty token
        ELSE LET spec3 == IF strings
                          THEN OrderedDict(OrderedDictOf(
                                [i \in 1..Len(spec2.items) |->
                                    SortToken(spec2.items[i].s)]))
                          ELSE spec2
             IN  IF spec3.t # "odict" THEN Raised("AssertionError")
                 ELSE IF \E i \in 1..Len(spec3.entries) :
                            ~(spec3.entries[i].v.t = "int"
                              /\ spec3.entries[i].v.n \in {-1, 1})
                 THEN Raised("AssertionError")
                 ELSE Returned([sort |-> spec3.entries])

\* columns[name].desc()
Desc(col) == [desc |-> col]

\* MongoSort.columns
MongoSortColumns(columns, sort) ==
    IF ~(Keys(sort) \subseteq DOMAIN columns)
    THEN Raised("AssertionError")
    ELSE Returned([i \in 1..Len(sort) |->
            IF sort[i].v.n = -1 THEN Desc(columns[sort[i].k]) ELSE columns[sort[i].k]])

\* MongoSort.__call__
MongoSortCall(obj, m) == MongoSortColumns(m.columns, obj.sort)

\* MongoGroup.__init__
MongoGroupInit(group_spec) == MongoSortInit(group_spec)

\* MongoGroup.__call__
MongoGroupCall(obj, m) == MongoSortColumns(m.columns, obj.sort)

-----------------------------------------------------------------------------
(* MongoJoin                                                                 *)

\* MongoJoin.__init__: self.relnames, a list of names.
MongoJoinInit(relnames) ==
    IF ~(relnames.t \in {"none", "str", "list"})
    THEN Raised("AssertionError")
    ELSE IF Falsy(relnames) THEN Returned([relnames |-> <<>>])
    ELSE IF relnames.t = "str" THEN Returned([relnames |-> Split(relnames.s)])
    ELSE Returned([relnames |->
            [i \in 1..Len(relnames.items) |-> relnames.items[i].s]])

\* lazyload(relname)
LazyLoad(relname) == [directive |-> "lazyload", relation |-> relname]

\* options() that makes one directive for each requested relation instead.
JoinOptionsRequested(model_relations, relnames) ==
    IF ~(Range(relnames) \subseteq DOMAIN model_relations)
    THEN Raised("AssertionError")
    ELSE Returned(SetToBag({LazyLoad(r) : r \in Range(relnames)}))

\* MongoJoin.options: lazyload() for every relation of the model that is not
\* requested, in the order of iteration of the set of the model's relations.
MongoJoinOptions(model_relations, relnames) ==
    IF ~(Range(relnames) \subseteq DOMAIN model_relations)
    THEN Raised("AssertionError")
    ELSE Returned(SetToBag({LazyLoad(r) :
                    r \in DOMAIN model_relations \ Range(relnames)}))

\* MongoJoin.__call__
MongoJoinCall(obj, m) == MongoJoinOptions(m.relations, obj.relnames)

-----------------------------------------------------------------------------
(* MongoCriteria                                                             *)

\* Keys of a criteria object are strings: a column name (a sequence of
\* characters) or an operator, written as a one-symbol sequence.
Op(name) == <<name>>
BooleanOps == {Op("$or"), Op("$and"), Op("$nor"), Op("$not")}

\* The expressions statetement() builds.
PyTrue == [node |-> "True"]
Cmp(col, cmp, val) == [node |-> "cmp", col |-> col, cmp |-> cmp, val |-> val]
Not(x) == [node |-> "not", arg |-> x]
And(xs) == [node |-> "and", args |-> xs]
Or(xs) == [node |-> "or", args |-> xs]
Group(x) == [node |-> "group", arg |-> x]

\* cast(pg.array(value), pg.ARRAY(col.type.item_type)): an SQL expression.
CastArray(value) == [t |-> "cast", items |-> value.items]

\* bool(value) as in `if value:`.  An SQL expression has no truth value:
\* its __bool__ raises TypeError.
Truth(value) ==
    IF value.t = "cast" THEN Raised("TypeError")
    ELSE Returned(~Falsy(value))

\* `value == 0` as a condition: true of 0 and False; comparing an SQL
\* expression builds an expression, which is false as a condition.
EqualsZero(value) == value.t \in {"int", "bool"} /\ value.n = 0

\* MongoCriteria.__init__
MongoCriteriaInit(criteria) ==
    LET c == IF Falsy(criteria) THEN PyDict(<<>>) ELSE criteria
    IN  IF c.t # "dict" THEN Raised("AssertionError")
        ELSE Returned([criteria |-> c])

\* One operator of a field entry: the body of the loop over criteria.items().
Operator(col, op, operand) ==
    LET col_array == col.is_array
        value_array == operand.t = "list"
        value == IF col_array /\ value_array THEN CastArray(operand) ELSE operand
    IN  CASE op = Op("$eq") ->
                IF col_array /\ ~value_array THEN Returned(Cmp(col, "any_eq", value))
                ELSE Returned(Cmp(col, "eq", value))
          [] op = Op("$ne") ->
                IF col_array /\ ~value_array THEN Returned(Cmp(col, "all_ne", value))
                ELSE Returned(Cmp(col, "ne", value))
          [] op = Op("$lt") -> Returned(Cmp(col, "lt", value))
          [] op = Op("$lte") -> Returned(Cmp(col, "le", value))
          [] op = Op("$gte") -> Returned(Cmp(col, "ge", value))
          [] op = Op("$gt") -> Returned(Cmp(col, "gt", value))
          [] op = Op("$in") ->
                IF ~value_array THEN Raised("AssertionError")
                ELSE IF col_array THEN Returned(Cmp(col, "overlap", value))
                ELSE Returned(Cmp(col, "in", value))
          [] op = Op("$nin") ->
                IF ~value_array THEN Raised("AssertionError")
                ELSE IF col_array THEN Returned(Not(Cmp(col, "overlap", value)))
                ELSE Returned(Cmp(col, "not_in", value))
          [] op = Op("$exists") ->
                IF Truth(value).status # "ok" THEN Truth(value)
                ELSE IF Truth(value).value THEN Returned(Cmp(col, "is_not", None))
                ELSE Returned(Cmp(col, "is", None))
          [] op = Op("$all") ->
                IF ~col_array \/ ~value_array THEN Raised("AssertionError")
                ELSE Returned(Cmp(col, "contains", value))
          [] op = Op("$size") ->
                IF ~col_array THEN Raised("AssertionError")
                ELSE IF EqualsZero(value) THEN Returned(Cmp(col, "array_length_is", None))
                ELSE Returned(Cmp(col, "array_length_eq", value))
          [] OTHER -> Raised("AssertionError")

\* The first exception among results, or all their values in order.
Collect(results) ==
    IF \E i \in 1..Len(results) : results[i].status # "ok"
    THEN results[CHOOSE i \in 1..Len(results) :
                    /\ results[i].status # "ok"
                    /\ \A j \in 1..i - 1 : results[j].status = "ok"]
    ELSE Returned([i \in 1..Len(results) |-> results[i].value])

\* Concatenation of a sequence of sequences.
Flatten(seqs) ==
    LET F[i \in 0..Len(seqs)] == IF i = 0 THEN <<>> ELSE F[i - 1] \o seqs[i]
    IN  F[Len(seqs)]

\* A field entry: the conditions of its operators, in order; a value that is
\* no dict stands for { $eq: value }.
FieldConditions(col, criteria) ==
    LET ops == IF criteria.t # "dict"
               THEN <<Item(Op("$eq"), criteria)>>
               ELSE criteria.entries
    IN  Collect([i \in 1..Len(ops) |-> Operator(col, ops[i].k, ops[i].v)])

\* The combinators with $nor's negation forgotten.
CombineNorAsOr(col_name, exprs) ==
    IF col_name = Op("$and")
    THEN IF Len(exprs) > 1 THEN Group(And(exprs)) ELSE And(exprs)
    ELSE IF Len(exprs) > 1 THEN Group(Or(exprs)) ELSE Or(exprs)

\* $or, $and, $nor over the compiled children of a non-empty list: or_(),
\* and_(), ~or_(), grouped when there is more than one child.
Combine(col_name, exprs) ==
    IF col_name = Op("$or")
    THEN IF Len(exprs) > 1 THEN Group(Or(exprs)) ELSE Or(exprs)
    ELSE IF col_name = Op("$and")
    THEN IF Len(exprs) > 1 THEN Group(And(exprs)) ELSE And(exprs)
    ELSE IF Len(exprs) > 1 THEN Not(Group(Or(exprs))) ELSE Not(Or(exprs))

\* MongoCriteria.statetement: the conditions of every entry, joined by and_().
RECURSIVE Statetement(_, _)
Statetement(columns, criteria) ==
    IF criteria.t # "dict" THEN Raised("AttributeError")    \* criteria.keys()
    ELSE IF ~((Keys(criteria.entries) \ BooleanOps) \subseteq DOMAIN columns)
    THEN Raised("AssertionError")
    ELSE
    LET Entry(e) ==
            \* the conditions one entry appends
            IF e.k \in {Op("$or"), Op("$and"), Op("$nor")}
            THEN IF e.v.t # "list" THEN Raised("AssertionError")
                 ELSE IF Len(e.v.items) = 0 THEN Returned(<<>>)
                 ELSE LET sub == Collect([i \in 1..Len(e.v.items) |->
                                            Statetement(columns, e.v.items[i])])
                      IN  IF sub.status # "ok" THEN sub
                          ELSE Returned(<<Combine(e.k, sub.value)>>)
            ELSE IF e.k = Op("$not")
            THEN IF e.v.t # "dict" THEN Raised("AssertionError")
                 ELSE LET sub == Statetement(columns, e.v)
                      IN  IF sub.status # "ok" THEN sub
                          ELSE Returned(<<Not(sub.value)>>)
            ELSE FieldConditions(columns[e.k], e.v)
        all == Collect([i \in 1..Len(criteria.entries) |-> Entry(criteria.entries[i])])
    IN  IF all.status # "ok" THEN all
        ELSE LET conditions == Flatten(all.value)
             IN  IF Len(conditions) > 1 THEN Returned(Group(And(conditions)))
                 ELSE IF Len(conditions) = 1 THEN Returned(And(conditions))
                 ELSE Returned(PyTrue)

\* MongoCriteria.__call__
MongoCriteriaCall(obj, m) == Statetement(m.columns, obj.criteria)

-----------------------------------------------------------------------------
(* MongoAggregate                                                            *)

\* The selectables.
Label(expr, name) == [label |-> name, expr |-> expr]
Func(name, operand) == [func |-> name, operand |-> operand]
Count == [func |-> "count"]
Times(expr, n) == [times |-> n, expr |-> expr]
CastInteger(expr) == [cast |-> "Integer", expr |-> expr]

\* MongoAggregate.__init__
MongoAggregateInit(agg_spec) ==
    LET a == IF Falsy(agg_spec) THEN PyDict(<<>>) ELSE agg_spec
    IN  IF a.t # "dict" THEN Raised("AssertionError")
        ELSE Returned([agg_spec |-> a])

\* The head of the loop body, up to the popitem(): a column reference is
\* appended at once, and a computed expression is checked to be a dict of one
\* operator.
\*   [next |-> "append", value]  selectables.append(value); continue
\*   [next |-> "raise", exc]
\*   [next |-> "pop"]            go on to comp_expression.popitem()
EntryTest(columns, comp_field, comp_expression) ==
    IF comp_expression.t = "str"
    THEN IF comp_expression.s \in DOMAIN columns
         THEN [next |-> "append",
               value |-> Label(columns[comp_expression.s], comp_field)]
         ELSE [next |-> "raise", exc |-> "AssertionError"]
    ELSE IF comp_expression.t # "dict"
    THEN [next |-> "raise", exc |-> "AssertionError"]
    ELSE IF Len(comp_expression.entries) # 1
    THEN [next |-> "raise", exc |-> "AssertionError"]
    ELSE [next |-> "pop"]

\* The rest of the loop body, from the popped (operator, expression) on: the
\* labeled selectable, or the exception.
EntryBuild(columns, comp_field, operator, expression) ==
    LET stmt ==
            IF expression.t \in {"int", "bool"} /\ operator = Op("$sum")
            THEN Returned(expression)
            ELSE IF expression.t = "str"
            THEN IF expression.s \in DOMAIN columns
                 THEN Returned(columns[expression.s])
                 ELSE Raised("AssertionError")
            ELSE IF expression.t = "dict"
            THEN LET c == Statetement(columns, expression)
                 IN  IF c.status # "ok" THEN c ELSE Returned(CastInteger(c.value))
            ELSE Raised("AssertionError")
        is_int == expression.t \in {"int", "bool"} /\ operator = Op("$sum")
    IN  IF stmt.status # "ok" THEN stmt
        ELSE IF operator = Op("$max")
        THEN Returned(Label(Func("max", stmt.value), comp_field))
        ELSE IF operator = Op("$min")
        THEN Returned(Label(Func("min", stmt.value), comp_field))
        ELSE IF operator = Op("$avg")
        THEN Returned(Label(Func("avg", stmt.value), comp_field))
        ELSE IF operator = Op("$sum")
        THEN IF is_int
             THEN IF stmt.value.n # 1
                  THEN Returned(Label(Times(Count, stmt.value.n), comp_field))
                  ELSE Returned(Label(Count, comp_field))
             ELSE Returned(Label(Func("sum", stmt.value), comp_field))
        ELSE Raised("AssertionError")

\* comp_expression.popitem() on the dict at place i of agg_spec: the dict
\* loses its item.
PopItem(agg_spec, i) ==
    [agg_spec EXCEPT !.entries[i].v.entries = SubSeq(@, 1, Len(@) - 1)]

\* MongoAggregate.selectables run alone from entry i on, with the selectables
\* gathered so far: [result, agg_spec], what it returns or raises and what it
\* leaves of agg_spec.
RECURSIVE SelectablesFrom(_, _, _, _)
SelectablesFrom(columns, agg_spec, i, selectables) ==
    IF i > Len(agg_spec.entries)
    THEN [result |-> Returned(selectables), agg_spec |-> agg_spec]
    ELSE LET e == agg_spec.entries[i]
             test == EntryTest(columns, e.k, e.v)
         IN  IF test.next = "raise"
             THEN [result |-> Raised(test.exc), agg_spec |-> agg_spec]
             ELSE IF test.next = "append"
             THEN SelectablesFrom(columns, agg_spec, i + 1,
                                  Append(selectables, test.value))
             ELSE LET popped == e.v.entries[Len(e.v.entries)]
                      after == PopItem(agg_spec, i)
                      sel == EntryBuild(columns, e.k, popped.k, popped.v)
                  IN  IF sel.status # "ok"
                      THEN [result |-> sel, agg_spec |-> after]
                      ELSE SelectablesFrom(columns, after, i + 1,
                                           Append(selectables, sel.value))

\* MongoAggregate.selectables, called alone.
Selectables(columns, agg_spec) == SelectablesFrom(columns, agg_spec, 1, <<>>)

-----------------------------------------------------------------------------
(* Inputs.                                                                   *)

NumCallers == 2
Callers == 1..NumCallers

\* A model exposes some of the columns and some of the relations.
Models(colsets, relsets) ==
    {[columns |-> [n \in cs |-> Column(n)],
      relations |-> [n \in rs |-> [relation |-> n]]] :
        cs \in colsets, rs \in relsets}

\* Field names given to a statement: the columns and a name that is none.
FieldNames == ColumnNames \cup {<<"a", "b">>}

\* dicts over distinct keys, their items listed in one fixed order of the keys.
KeyOrder(k) == CASE k = <<"a">> -> 1 [] k = <<"b">> -> 2 [] k = <<"c">> -> 3
                 [] OTHER -> 4
DictsOver(keys, vals) ==
    {entries \in SeqsUpTo([k : keys, v : vals], Cardinality(keys)) :
        \A i, j \in 1..Len(entries) :
            i < j => KeyOrder(entries[i].k) < KeyOrder(entries[j].k)}

\* OrderedDicts of at most n distinct keys, in every order.
OrderedDictsOver(keys, vals, n) ==
    {entries \in SeqsUpTo([k : keys, v : vals], n) :
        \A i, j \in 1..Len(entries) : i < j => entries[i].k # entries[j].k}

ProjectionInputs ==
    {None, PyInt(5)}
    \cup {PyStr(s) : s \in Strings(Chars, MaxStrLen)}
    \cup {PyList(l) : l \in SeqsUpTo({PyStr(f) : f \in FieldNames}, MaxListLen)}
    \cup {PyDict(d) : d \in DictsOver(FieldNames, {PyInt(n) : n \in {-1, 0, 1, 2}})}

SortTokens ==
    {PyStr(s) : s \in {<<>>, <<"a">>, <<"b">>, <<"a", "-">>, <<"b", "+">>,
                        <<"c", "-">>, <<"a", "b">>, <<"-">>}} \cup {PyInt(1)}

SortInputs ==
    {None, PyInt(5), PyDict(<<Item(<<"a">>, PyInt(1))>>)}
    \cup {PyStr(s) : s \in Strings(Chars, MaxStrLen)}
    \cup {PyList(l) : l \in SeqsUpTo(SortTokens, MaxListLen)}
    \cup {OrderedDict(d) :
            d \in OrderedDictsOver(FieldNames, {PyInt(n) : n \in {-1, 0, 1}}, MaxListLen)}

JoinChars == Letters \cup {","}

JoinInputs ==
    {None, PyInt(0), PyInt(5), PyDict(<<>>)}
    \cup {PyStr(s) : s \in Strings(JoinChars, MaxStrLen)}
    \cup {PyList(l) : l \in SeqsUpTo({PyStr(f) : f \in FieldNames}, MaxListLen + 1)}

\* Operands of a criteria operator.
Operands ==
    {None, PyInt(0), PyInt(1), PyInt(2), PyBool(FALSE), PyBool(TRUE),
     PyStr(<<>>), PyStr(<<"a">>)}
    \cup {PyList(l) : l \in SeqsUpTo({PyInt(1), PyInt(2)}, MaxListLen)}

Operators ==
    {Op(o) : o \in {"$eq", "$ne", "$lt", "$lte", "$gte", "$gt", "$in", "$nin",
                     "$exists", "$all", "$size", "$regex"}}

\* { field: { op: V } } and { field: V }
LeafCriteria ==
    {PyDict(<<Item(f, PyDict(<<Item(o, val)>>))>>) :
        f \in ColumnNames, o \in Operators, val \in Operands}
    \cup {PyDict(<<Item(f, val)>>) : f \in ColumnNames, val \in Operands}

\* The values a field takes inside a boolean tree.
FieldValues(f) ==
    IF f = <<"a">>
    THEN {PyInt(1), PyDict(<<>>),
          PyDict(<<Item(Op("$lt"), PyInt(2)), Item(Op("$gte"), PyInt(1))>>)}
    ELSE {PyDict(<<Item(Op("$nin"), PyList(<<PyInt(1)>>))>>),
          PyDict(<<Item(Op("$in"), PyInt(1))>>)}

\* The keys of a criteria object, in the order its items are listed.
TreeKeys == <<Op("$or"), Op("$and"), Op("$nor"), Op("$not"), <<"a">>, <<"b">>>>

\* Criteria objects by size, the number of entries at all levels:
\*   Objects(i, n)   objects of size n over the keys TreeKeys[i], TreeKeys[i+1]..
\*   Entries(k, n)   entries of size n (the entry and what is below) under key k
\*   Children(j, n)  lists of j objects, none empty, of total size n
RECURSIVE Objects(_, _), Entries(_, _), Children(_, _)
Objects(i, n) ==
    IF i > Len(TreeKeys) THEN (IF n = 0 THEN {<<>>} ELSE {})
    ELSE Objects(i + 1, n)
         \cup UNION {{<<e>> \o rest : e \in Entries(TreeKeys[i], m),
                                      rest \in Objects(i + 1, n - m)} : m \in 1..n}
Entries(k, n) ==
    IF k \in {Op("$or"), Op("$and"), Op("$nor")}
    THEN {Item(k, PyList(l)) : l \in UNION {Children(j, n - 1) : j \in 0..MaxListLen}}
    ELSE IF k = Op("$not")
    THEN {Item(k, PyDict(c)) : c \in Objects(1, n - 1)}
    ELSE IF n = 1 THEN {Item(k, val) : val \in FieldValues(k)} ELSE {}
Children(j, n) ==
    IF j = 0 THEN (IF n = 0 THEN {<<>>} ELSE {})
    ELSE UNION {{<<PyDict(c)>> \o rest : c \in Objects(1, m),
                                         rest \in Children(j - 1, n - m)} : m \in 1..n}

TreeCriteria == {PyDict(c) : c \in UNION {Objects(1, n) : n \in 0..MaxEntries}}

CriteriaInputs ==
    {None, PyInt(5),
     PyDict(<<Item(Op("$or"), PyInt(1))>>),
     PyDict(<<Item(Op("$not"), PyList(<<>>))>>),
     PyDict(<<Item(Op("$and"), PyList(<<PyInt(1)>>))>>)}
    \cup {PyDict(<<Item(o, PyList(l))>>) :
            o \in {Op("$or"), Op("$and"), Op("$nor")},
            l \in {<<PyDict(<<>>)>>, <<PyDict(<<>>), PyDict(<<>>)>>,
                   <<PyDict(<<>>), PyDict(<<Item(<<"a">>, PyInt(1))>>)>>}}
    \cup LeafCriteria \cup TreeCriteria

\* Aggregation expressions: a column name, { op: operand }, and malformed ones.
AggOperands ==
    {None, PyInt(1), PyInt(3), PyBool(TRUE), PyStr(<<"a">>), PyStr(<<"a", "b">>),
     PyList(<<>>), PyDict(<<>>),
     PyDict(<<Item(<<"a">>, PyInt(1))>>),
     PyDict(<<Item(<<"a", "b">>, PyInt(1))>>),
     PyDict(<<Item(<<"b">>, PyDict(<<Item(Op("$exists"), PyList(<<>>))>>))>>)}

AggOperators == {Op(o) : o \in {"$min", "$max", "$avg", "$sum", "$count"}}

AggExpressions ==
    {PyStr(<<"a">>), PyStr(<<"a", "b">>), PyInt(1), PyDict(<<>>),
     PyDict(<<Item(Op("$sum"), PyInt(1)), Item(Op("$max"), PyStr(<<"a">>))>>)}
    \cup {PyDict(<<Item(o, x)>>) : o \in AggOperators, x \in AggOperands}

\* The expressions of the specs of more than one entry.
AggExpressionsShort ==
    {PyStr(<<"a">>), PyInt(1),
     PyDict(<<Item(Op("$sum"), PyInt(1))>>),
     PyDict(<<Item(Op("$max"), PyStr(<<"a">>))>>),
     PyDict(<<Item(Op("$sum"), PyDict(<<Item(<<"a">>, PyInt(1))>>))>>),
     PyDict(<<Item(Op("$count"), PyInt(1))>>)}

AggregateInputs ==
    {None, PyInt(5), PyDict(<<>>)}
    \cup {PyDict(<<Item(<<"a">>, e)>>) : e \in AggExpressions}
    \cup {PyDict(<<Item(<<"a">>, e1), Item(<<"b">>, e2)>>) :
            e1 \in AggExpressionsShort, e2 \in AggExpressionsShort}

-----------------------------------------------------------------------------
(* The statements as a state machine: __init__, then any number of calls.    *)

InitWith(classes, inputs, models) ==
    /\ cls \in classes
    /\ arg \in inputs
    /\ model \in models
    /\ pc = "new"
    /\ self = <<>>
    /\ built = <<>>
    /\ ret = NoResult
    /\ callers = <<>>

\* c.__init__(arg)
Construct(c, res) ==
    /\ cls = c
    /\ pc = "new"
    /\ pc' = IF res.status = "ok" THEN "built" ELSE "raised"
    /\ self' = IF res.status = "ok" THEN res.value ELSE <<>>
    /\ built' = self'
    /\ ret' = IF res.status = "ok" THEN NoResult ELSE res
    /\ UNCHANGED <<cls, arg, model, callers>>

\* c.__call__(model) of a statement whose compilation is one step.
Compile(c, res) ==
    /\ cls = c
    /\ pc \in {"built", "called"}
    /\ pc' = "called"
    /\ ret' = res
    /\ UNCHANGED <<cls, arg, model, self, built, callers>>

ProjectionInit == Construct("MongoProjection", MongoProjectionInit(arg))
ProjectionCall == Compile("MongoProjection", MongoProjectionCall(self, model))
SortInit == Construct("MongoSort", MongoSortInit(arg))
SortCall == Compile("MongoSort", MongoSortCall(self, model))
GroupInit == Construct("MongoGroup", MongoGroupInit(arg))
GroupCall == Compile("MongoGroup", MongoGroupCall(self, model))
JoinInit == Construct("MongoJoin", MongoJoinInit(arg))
JoinCall == Compile("MongoJoin", MongoJoinCall(self, model))
CriteriaInit == Construct("MongoCriteria", MongoCriteriaInit(arg))
CriteriaCall == Compile("MongoCriteria", MongoCriteriaCall(self, model))

\* MongoAggregate: the callers share the statement and so the dicts of
\* agg_spec.  A caller's frame is at the head of the loop body for entry i
\* ("test"), before the popitem() of entry i ("pop"), or has left the call
\* ("done") with its result.
Idle == [pc |-> "idle", i |-> 0, selectables |-> <<>>, result |-> NoResult]
Done(res) == [pc |-> "done", i |-> 0, selectables |-> <<>>, result |-> res]
At(where, i, selectables) ==
    [pc |-> where, i |-> i, selectables |-> selectables, result |-> NoResult]

\* The frame after entry i appended sel: the next entry, or the return.
Advance(frame, sel, agg_spec) ==
    IF frame.i = Len(agg_spec.entries)
    THEN Done(Returned(Append(frame.selectables, sel)))
    ELSE At("test", frame.i + 1, Append(frame.selectables, sel))

AggregateInit ==
    /\ cls = "MongoAggregate"
    /\ pc = "new"
    /\ LET res == MongoAggregateInit(arg)
       IN  /\ pc' = IF res.status = "ok" THEN "built" ELSE "raised"
           /\ self' = IF res.status = "ok" THEN res.value ELSE <<>>
           /\ built' = self'
           /\ ret' = IF res.status = "ok" THEN NoResult ELSE res
           /\ callers' = IF res.status = "ok" THEN [c \in Callers |-> Idle] ELSE <<>>
    /\ UNCHANGED <<cls, arg, model>>

\* __call__ entered: selectables = [], the loop over agg_spec.items() begins.
AggregateCall(c) ==
    /\ cls = "MongoAggregate"
    /\ pc \in {"built", "called"}
    /\ callers[c].pc \in {"idle", "done"}
    /\ pc' = "called"
    /\ callers' = [callers EXCEPT ![c] =
            IF Len(self.agg_spec.entries) = 0 THEN Done(Returned(<<>>))
            ELSE At("test", 1, <<>>)]
    /\ ret' = IF Len(self.agg_spec.entries) = 0 THEN Returned(<<>>) ELSE ret
    /\ UNCHANGED <<cls, arg, model, self, built>>

\* The loop body of entry i up to the popitem().
AggregateTest(c) ==
    /\ cls = "MongoAggregate"
    /\ pc = "called"
    /\ callers[c].pc = "test"
    /\ LET f == callers[c]
           e == self.agg_spec.entries[f.i]
           test == EntryTest(model.columns, e.k, e.v)
           next == CASE test.next = "raise" -> Done(Raised(test.exc))
                     [] test.next = "append" -> Advance(f, test.value, self.agg_spec)
                     [] test.next = "pop" -> At("pop", f.i, f.selectables)
       IN  /\ callers' = [callers EXCEPT ![c] = next]
           /\ ret' = IF next.pc = "done" THEN next.result ELSE ret
    /\ UNCHANGED <<cls, arg, model, pc, self, built>>

\* The popitem() of entry i and the rest of the loop body.
AggregatePop(c) ==
    /\ cls = "MongoAggregate"
    /\ pc = "called"
    /\ callers[c].pc = "pop"
    /\ LET f == callers[c]
           e == self.agg_spec.entries[f.i]
       IN  IF Len(e.v.entries) = 0
           THEN /\ callers' = [callers EXCEPT ![c] = Done(Raised("KeyError"))]
                /\ ret' = Raised("KeyError")
                /\ self' = self
           ELSE \E sel \in {EntryBuild(model.columns, e.k,
                                       e.v.entries[Len(e.v.entries)].k,
                                       e.v.entries[Len(e.v.entries)].v)} :
                \E next \in {IF sel.status # "ok" THEN Done(sel)
                             ELSE Advance(f, sel.value, self.agg_spec)} :
                    /\ self' = [agg_spec |-> PopItem(self.agg_spec, f.i)]
                    /\ callers' = [callers EXCEPT ![c] = next]
                    /\ ret' = IF next.pc = "done" THEN next.result ELSE ret
    /\ UNCHANGED <<cls, arg, model, pc, built>>

AggregateStep == \E c \in Callers : AggregateCall(c) \/ AggregateTest(c) \/ AggregatePop(c)

InitProjection ==
    InitWith({"MongoProjection"}, ProjectionInputs,
             Models(SUBSET ColumnNames, {RelationNames}))
NextProjection == ProjectionInit \/ ProjectionCall
SpecProjection == InitProjection /\ [][NextProjection]_vars

InitSort ==
    InitWith({"MongoSort", "MongoGroup"}, SortInputs,
             Models({{}, {<<"a">>, <<"b">>}, ColumnNames}, {RelationNames}))
NextSort == SortInit \/ SortCall \/ GroupInit \/ GroupCall
SpecSort == InitSort /\ [][NextSort]_vars

InitJoin ==
    InitWith({"MongoJoin"}, JoinInputs, Models({ColumnNames}, SUBSET RelationNames))
NextJoin == JoinInit \/ JoinCall
SpecJoin == InitJoin /\ [][NextJoin]_vars

InitCriteria ==
    InitWith({"MongoCriteria"}, CriteriaInputs,
             Models({ColumnNames, {<<"a">>, <<"b">>}}, {RelationNames}))
NextCriteria == CriteriaInit \/ CriteriaCall
SpecCriteria == InitCriteria /\ [][NextCriteria]_vars

InitAggregate ==
    InitWith({"MongoAggregate"}, AggregateInputs,
             Models({ColumnNames}, {RelationNames}))
NextAggregate == AggregateInit \/ AggregateStep
SpecAggregate == InitAggregate /\ [][NextAggregate]_vars

\* Every statement class.
Init == InitProjection \/ InitSort \/ InitJoin \/ InitCriteria \/ InitAggregate
Next == NextProjection \/ NextSort \/ NextJoin \/ NextCriteria \/ NextAggregate
Spec == Init /\ [][Next]_vars

-----------------------------------------------------------------------------
(* Claims about MongoCriteria.                                               *)

Called(c) == cls = c /\ pc = "called"

\* A criteria leaf { field: { op: V } } on a column of the model.
IsLeaf(c) ==
    /\ c.t = "dict" /\ Len(c.entries) = 1
    /\ c.entries[1].k \in DOMAIN model.columns
    /\ c.entries[1].v.t = "dict" /\ Len(c.entries[1].v.entries) = 1

\* The operator table: the predicate of (op, A, L, V) on a column, or "error".
Predicate(col, what, negated, operand) ==
    [col |-> col, predicate |-> what, negated |-> negated, operand |-> operand]
TableEntry(col, op, A, L, V) ==
    CASE op = Op("$eq") ->
            IF A /\ ~L THEN Predicate(col, "array contains element", FALSE, V)
            ELSE Predicate(col, "equal", FALSE, V)
      [] op = Op("$ne") ->
            IF A /\ ~L THEN Predicate(col, "all elements differ", FALSE, V)
            ELSE Predicate(col, "equal", TRUE, V)
      [] op = Op("$lt") -> Predicate(col, "less", FALSE, V)
      [] op = Op("$lte") -> Predicate(col, "less or equal", FALSE, V)
      [] op = Op("$gte") -> Predicate(col, "greater or equal", FALSE, V)
      [] op = Op("$gt") -> Predicate(col, "greater", FALSE, V)
      [] op \in {Op("$in"), Op("$nin")} ->
            IF ~L THEN Predicate(col, "error", FALSE, None)
            ELSE Predicate(col, IF A THEN "overlap" ELSE "member", op = Op("$nin"), V)
      [] op = Op("$exists") -> Predicate(col, "is null", ~Falsy(V), None)
      [] op = Op("$all") ->
            IF ~A \/ ~L THEN Predicate(col, "error", FALSE, None)
            ELSE Predicate(col, "array contains all", FALSE, V)
      [] op = Op("$size") ->
            IF ~A THEN Predicate(col, "error", FALSE, None)
            ELSE IF V.t \in {"int", "bool"} /\ V.n = 0
            THEN Predicate(col, "length is null", FALSE, None)
            ELSE Predicate(col, "length equal", FALSE, V)
      [] OTHER -> Predicate(col, "error", FALSE, None)

\* What a compiled comparison says.
Uncast(val) == IF val.t = "cast" THEN PyList(val.items) ELSE val
RECURSIVE Meaning(_)
Meaning(p) ==
    IF p.node = "not"
    THEN [Meaning(p.arg) EXCEPT !.negated = ~@]
    ELSE LET Says(what, negated) == Predicate(p.col, what, negated, Uncast(p.val))
         IN  CASE p.cmp = "eq" -> Says("equal", FALSE)
               [] p.cmp = "ne" -> Says("equal", TRUE)
               [] p.cmp = "any_eq" -> Says("array contains element", FALSE)
               [] p.cmp = "all_ne" -> Says("all elements differ", FALSE)
               [] p.cmp = "lt" -> Says("less", FALSE)
               [] p.cmp = "le" -> Says("less or equal", FALSE)
               [] p.cmp = "ge" -> Says("greater or equal", FALSE)
               [] p.cmp = "gt" -> Says("greater", FALSE)
               [] p.cmp = "in" -> Says("member", FALSE)
               [] p.cmp = "not_in" -> Says("member", TRUE)
               [] p.cmp = "overlap" -> Says("overlap", FALSE)
               [] p.cmp = "is" -> Says("is null", FALSE)
               [] p.cmp = "is_not" -> Says("is null", TRUE)
               [] p.cmp = "contains" -> Says("array contains all", FALSE)
               [] p.cmp = "array_length_is" -> Says("length is null", FALSE)
               [] p.cmp = "array_length_eq" -> Says("length equal", FALSE)

\* C1 as stated: a leaf (field, op, V) compiles to the predicate the operator
\* table gives for the column's array flag and the operand's list flag, and
\* fails with a validation error exactly when the table's constraint is
\* violated or the operator is not supported.
C1_OperatorTable ==
    (Called("MongoCriteria") /\ IsLeaf(arg)) =>
        LET col == model.columns[arg.entries[1].k]
            op == arg.entries[1].v.entries[1].k
            V == arg.entries[1].v.entries[1].v
            want == TableEntry(col, op, col.is_array, V.t = "list", V)
        IN  IF want.predicate = "error" THEN ret = Raised("AssertionError")
            ELSE /\ ret.status = "ok"
                 /\ ret.value.node = "and" /\ Len(ret.value.args) = 1
                 /\ Meaning(ret.value.args[1]) = want

\* The truth value of a compiled predicate when the comparisons in asg are
\* true and all others false.
RECURSIVE Eval(_, _)
Eval(p, asg) ==
    CASE p.node = "True" -> TRUE
      [] p.node = "cmp" -> p \in asg
      [] p.node = "not" -> ~Eval(p.arg, asg)
      [] p.node = "group" -> Eval(p.arg, asg)
      [] p.node = "and" -> \A i \in 1..Len(p.args) : Eval(p.args[i], asg)
      [] p.node = "or" -> \E i \in 1..Len(p.args) : Eval(p.args[i], asg)

\* The comparisons of a compiled predicate.
RECURSIVE Atoms(_)
Atoms(p) ==
    CASE p.node = "True" -> {}
      [] p.node = "cmp" -> {p}
      [] p.node \in {"not", "group"} -> Atoms(p.arg)
      [] p.node \in {"and", "or"} -> UNION {Atoms(p.args[i]) : i \in 1..Len(p.args)}

\* The reference semantics of a criteria object: the AND of the contributions
\* of its entries.
RECURSIVE Reference(_, _)
Reference(c, asg) ==
    \A i \in 1..Len(c.entries) :
        LET e == c.entries[i]
        IN  CASE e.k = Op("$or") ->
                    \/ Len(e.v.items) = 0
                    \/ \E j \in 1..Len(e.v.items) : Reference(e.v.items[j], asg)
              [] e.k = Op("$and") ->
                    \A j \in 1..Len(e.v.items) : Reference(e.v.items[j], asg)
              [] e.k = Op("$nor") ->
                    \/ Len(e.v.items) = 0
                    \/ ~\E j \in 1..Len(e.v.items) : Reference(e.v.items[j], asg)
              [] e.k = Op("$not") -> ~Reference(e.v, asg)
              [] OTHER ->
                    LET ops == IF e.v.t = "dict" THEN e.v.entries
                               ELSE <<Item(Op("$eq"), e.v)>>
                    IN  \A j \in 1..Len(ops) :
                            Eval(Operator(model.columns[e.k],
                                          ops[j].k, ops[j].v).value, asg)

\* Whether some entry of the object contributes a predicate.
Contributes(c) ==
    \E i \in 1..Len(c.entries) :
        LET e == c.entries[i]
        IN  CASE e.k \in {Op("$or"), Op("$and"), Op("$nor")} -> Len(e.v.items) > 0
              [] e.k = Op("$not") -> TRUE
              [] OTHER -> e.v.t # "dict" \/ Len(e.v.entries) > 0

Equivalent(p, q) ==
    \A asg \in SUBSET (Atoms(p) \cup Atoms(q)) : Eval(p, asg) = Eval(q, asg)

\* C2: the compiled predicate of a criteria object has, under every truth
\* assignment to its leaf comparisons, the truth value of the reference
\* semantics; an object without contributions compiles to the constant True;
\* { $and: [C] } and { $not: { $not: C } } are equivalent to C.
C2_BooleanStructure ==
    (Called("MongoCriteria") /\ ret.status = "ok") =>
        LET C == self.criteria
            andC == Statetement(model.columns,
                        PyDict(<<Item(Op("$and"), PyList(<<C>>))>>))
            notnotC == Statetement(model.columns,
                        PyDict(<<Item(Op("$not"), PyDict(<<Item(Op("$not"), C)>>))>>))
        IN  /\ \A asg \in SUBSET Atoms(ret.value) :
                    Eval(ret.value, asg) = Reference(C, asg)
            /\ ~Contributes(C) => ret.value = PyTrue
            /\ andC.status = "ok" /\ Equivalent(andC.value, ret.value)
            /\ notnotC.status = "ok" /\ Equivalent(notnotC.value, ret.value)

C2_Witness ==
    /\ Called("MongoCriteria")
    /\ arg = PyDict(<<Item(Op("$nor"),
                PyList(<<PyDict(<<Item(<<"a">>, PyInt(1))>>),
                         PyDict(<<Item(<<"b">>,
                            PyDict(<<Item(Op("$nin"), PyList(<<PyInt(1)>>))>>))>>)>>))>>)
    /\ ret.status = "ok"
    /\ Cardinality(Atoms(ret.value)) = 2

-----------------------------------------------------------------------------
(* Claims about every statement, and about MongoAggregate.                   *)

\* C3 as stated: in every state reached by compile calls, successful or not,
\* the normalized form stored in the statement equals the value it had when
\* the constructor returned.
C3_CanonicalFormsImmutable ==
    pc \in {"built", "called"} => self = built

\* C4 as stated: under every interleaving, a caller that compiles the shared
\* MongoAggregate obtains exactly what a single call made alone on the freshly
\* constructed statement returns or raises.
C4_ConcurrentCallersAgree ==
    Called("MongoAggregate") =>
        \A c \in Callers :
            callers[c].pc = "done" =>
                callers[c].result = Selectables(model.columns, built.agg_spec).result

-----------------------------------------------------------------------------
(* Claims about MongoProjection.                                             *)

\* One load-only directive for each of the named columns of the model.
LoadOnlyEach(names) == SetToBag({LoadOnly(model.columns[n]) : n \in names})

\* C5 as stated: an empty projection (None, '', [], {}) compiles to an empty
\* sequence of load-only directives.
C5_EmptyProjectionNoDirectives ==
    (Called("MongoProjection") /\ Falsy(arg)) => ret = Returned(EmptyBag)

\* C5 as amended: an empty projection is stored as exclusion mode with nothing
\* excluded, and compiles to one load-only directive for every column of the
\* model (so to none only when the model has no column).
C5_EmptyProjectionLoadsEveryColumn ==
    (Called("MongoProjection") /\ Falsy(arg)) =>
        /\ self = ProjectionSelf(FALSE, <<>>)
        /\ ret = Returned(LoadOnlyEach(DOMAIN model.columns))

C5_Witness ==
    /\ Called("MongoProjection")
    /\ arg = PyStr(<<>>)
    /\ DOMAIN model.columns = ColumnNames
    /\ ret.status = "ok"
    /\ BagCardinality(ret.value) = 3

\* C6 as stated: construction from an object of integer values either fails or
\* stores values that all match the mode (all 1 in inclusion mode, all 0
\* otherwise), and an object with both an include entry and an exclude entry
\* is rejected.
C6_ProjectionNeverMixes ==
    (cls = "MongoProjection" /\ pc # "new" /\ arg.t = "dict") =>
        /\ \/ pc = "raised"
           \/ \A k \in DOMAIN self.projection :
                self.projection[k] = IF self.inclusion_mode THEN 1 ELSE 0
        /\ (\E i, j \in 1..Len(arg.entries) :
                arg.entries[i].v.n # 0 /\ arg.entries[j].v.n = 0)
                => pc = "raised"

\* The surface variants of a list of field names.
DistinctItems(fields, val) ==
    LET F[i \in 0..Len(fields)] ==
            IF i = 0 THEN <<>>
            ELSE IF fields[i] \in Keys(F[i - 1]) THEN F[i - 1]
            ELSE Append(F[i - 1], Item(fields[i], val))
    IN  F[Len(fields)]
AsString(fields) == PyStr(JoinNames(fields))
AsSigned(sign, fields) == PyStr(<<sign>> \o JoinNames(fields))
AsObject(fields, val) == PyDict(DistinctItems(fields, PyInt(val)))

\* __init__ then __call__ on the model, for a surface form.
ProjectionPlan(surface) ==
    LET obj == MongoProjectionInit(surface)
    IN  IF obj.status # "ok" THEN obj ELSE MongoProjectionCall(obj.value, model)

\* C7: for a non-empty list of fields of the model, the forms "f1,..,fn",
\* "+f1,..,fn", [f1..fn] and {f1:1,..} give the same canonical projection
\* (inclusion mode, the same fields) and the same plan, one load-only directive
\* for each listed column and no other; "-f1,..,fn" and {f1:0,..} both compile
\* to load-only directives for exactly the columns of the model not listed.
C7_ProjectionVariantsAgree ==
    (/\ Called("MongoProjection")
     /\ arg.t = "list" /\ Len(arg.items) > 0
     /\ \A i \in 1..Len(arg.items) : arg.items[i].s \in DOMAIN model.columns) =>
        LET fields == [i \in 1..Len(arg.items) |-> arg.items[i].s]
            canon == ProjectionSelf(TRUE, [k \in Range(fields) |-> 1])
            plan == Returned(LoadOnlyEach(Range(fields)))
            rest == Returned(LoadOnlyEach(DOMAIN model.columns \ Range(fields)))
        IN  /\ self = canon
            /\ ret = plan
            /\ \A s \in {AsString(fields), AsSigned("+", fields), AsObject(fields, 1)} :
                    /\ MongoProjectionInit(s) = Returned(canon)
                    /\ ProjectionPlan(s) = plan
            /\ \A s \in {AsSigned("-", fields), AsObject(fields, 0)} :
                    ProjectionPlan(s) = rest

C7_Witness ==
    /\ Called("MongoProjection")
    /\ arg = PyList(<<PyStr(<<"a">>), PyStr(<<"c">>)>>)
    /\ DOMAIN model.columns = ColumnNames
    /\ ret = Returned(LoadOnlyEach({<<"a">>, <<"c">>}))
    /\ ProjectionPlan(PyStr(<<"-", "a", ",", "c">>)) =
            Returned(LoadOnlyEach({<<"b">>}))

-----------------------------------------------------------------------------
(* Claims about MongoSort, MongoGroup and MongoJoin.                         *)

\* The entries of a sort input as the surface syntax reads them: the field
\* and the direction of each token or ordered-map entry, in the order given.
TokenField(tok) ==
    IF Len(tok) > 0 /\ tok[Len(tok)] \in {"+", "-"}
    THEN SubSeq(tok, 1, Len(tok) - 1) ELSE tok
TokenDescending(tok) == Len(tok) > 0 /\ tok[Len(tok)] = "-"
TokenEntry(tok) == [field |-> TokenField(tok), descending |-> TokenDescending(tok)]
SortEntries(input) ==
    IF input.t = "str"
    THEN [i \in 1..Len(SplitAt(input.s, ",")) |-> TokenEntry(SplitAt(input.s, ",")[i])]
    ELSE IF input.t = "list"
    THEN [i \in 1..Len(input.items) |-> TokenEntry(input.items[i].s)]
    ELSE [i \in 1..Len(input.entries) |->
            [field |-> input.entries[i].k, descending |-> input.entries[i].v.n = -1]]

SortInputOfClaim(input) ==
    \/ input.t = "str"
    \/ input.t = "list" /\ \A i \in 1..Len(input.items) : input.items[i].t = "str"
    \/ input.t = "odict" /\ \A i \in 1..Len(input.entries) :
                                input.entries[i].v.n \in {-1, 1}

FieldsExist(input) ==
    \A i \in 1..Len(SortEntries(input)) :
        SortEntries(input)[i].field \in DOMAIN model.columns

\* C8 as stated: for a sort input (string, list of string tokens, ordered map)
\* whose fields all exist, the plan has exactly one key per input entry, and
\* the i-th key is the i-th entry's column with that entry's direction.
C8_SortOrderPreserving ==
    (/\ cls = "MongoSort" /\ pc \in {"raised", "called"}
     /\ SortInputOfClaim(arg) /\ FieldsExist(arg)) =>
        /\ ret.status = "ok"
        /\ Len(ret.value) = Len(SortEntries(arg))
        /\ \A i \in 1..Len(ret.value) :
                LET e == SortEntries(arg)[i]
                IN  ret.value[i] = IF e.descending THEN Desc(model.columns[e.field])
                                   ELSE model.columns[e.field]

\* C9 as stated: every element of an emitted group plan is the bare column
\* handle of the corresponding field, never a descending key, in the order
\* given.
C9_GroupEmitsBareColumns ==
    (Called("MongoGroup") /\ ret.status = "ok") =>
        /\ Len(ret.value) = Len(self.sort)
        /\ \A i \in 1..Len(ret.value) : ret.value[i] = model.columns[self.sort[i].k]

\* The relation names a join input requests.
Requested(input) ==
    IF Falsy(input) THEN {}
    ELSE IF input.t = "str" THEN Range(SplitAt(input.s, ","))
    ELSE {input.items[i].s : i \in 1..Len(input.items)}

\* C10: a join compiled for requested names Q on a model with relations R
\* fails with a validation error if some requested name is not in R, and
\* otherwise emits a lazy-load directive for each relation of R \ Q, exactly
\* once, and none for a requested relation.
C10_JoinDemotesTheRest ==
    Called("MongoJoin") =>
        LET R == DOMAIN model.relations
            Q == Requested(arg)
        IN  IF ~(Q \subseteq R) THEN ret = Raised("AssertionError")
            ELSE /\ ret.status = "ok"
                 /\ DOMAIN ret.value = {LazyLoad(r) : r \in R \ Q}
                 /\ \A d \in DOMAIN ret.value : ret.value[d] = 1

C10_Witness ==
    /\ Called("MongoJoin")
    /\ arg = PyList(<<PyStr(<<"a">>), PyStr(<<"a">>)>>)
    /\ DOMAIN model.relations = RelationNames
    /\ ret = Returned(SetToBag({LazyLoad(<<"b">>), LazyLoad(<<"c">>)}))

-----------------------------------------------------------------------------
(* Claims about the operands of MongoAggregate.                              *)

ValidationError == Raised("AssertionError")
SupportedAggOps == {Op("$min"), Op("$max"), Op("$avg"), Op("$sum")}
AggFunc(op, operand) ==
    Func(CASE op = Op("$min") -> "min" [] op = Op("$max") -> "max"
           [] op = Op("$avg") -> "avg" [] op = Op("$sum") -> "sum", operand)

\* The selectable of one entry output_field -> expr, expr an object, as the
\* operand rules give it.  An embedded criteria object that does not compile
\* fails the entry as it fails when compiled alone.
EntrySelectable(columns, output_field, expr) ==
    IF Len(expr.entries) # 1 THEN ValidationError
    ELSE LET op == expr.entries[1].k
             inner == expr.entries[1].v
         IN  IF inner.t = "int"
             THEN IF op # Op("$sum") THEN ValidationError
                  ELSE IF inner.n = 1 THEN Returned(Label(Count, output_field))
                  ELSE Returned(Label(Times(Count, inner.n), output_field))
             ELSE IF inner.t = "str"
             THEN IF inner.s \notin DOMAIN columns \/ op \notin SupportedAggOps
                  THEN ValidationError
                  ELSE Returned(Label(AggFunc(op, columns[inner.s]), output_field))
             ELSE IF inner.t = "dict"
             THEN LET c == Statetement(columns, inner)
                  IN  IF c.status # "ok" THEN c
                      ELSE IF op \notin SupportedAggOps THEN ValidationError
                      ELSE Returned(Label(AggFunc(op, CastInteger(c.value)),
                                          output_field))
             ELSE ValidationError

\* The selectables of a whole spec: the entries' selectables in order, or the
\* failure of the first entry that fails.
RECURSIVE EntrySelectablesFrom(_, _, _)
EntrySelectablesFrom(columns, entries, i) ==
    IF i > Len(entries) THEN Returned(<<>>)
    ELSE LET s == EntrySelectable(columns, entries[i].k, entries[i].v)
             rest == EntrySelectablesFrom(columns, entries, i + 1)
         IN  IF s.status # "ok" THEN s
             ELSE IF rest.status # "ok" THEN rest
             ELSE Returned(<<s.value>> \o rest.value)

\* An aggregate spec all of whose expressions are objects.
OperatorEntriesOnly(agg_spec) ==
    /\ Len(agg_spec.entries) > 0
    /\ \A i \in 1..Len(agg_spec.entries) : agg_spec.entries[i].v.t = "dict"

\* C11 as stated: for a spec of entries output_field -> {op: inner}, a compile
\* of the freshly constructed statement gives, for each entry, count() times
\* inner (plain count() for 1) for an integer under $sum, op of the column for
\* a string naming a column, op of the integer cast of the compiled criteria
\* for an object, each labeled output_field; and fails with a validation error
\* for an integer under $min/$max/$avg, an unknown column, any other operand
\* shape, an unsupported operator, or an expression object that does not have
\* exactly one entry.
C11_AggregateOperands ==
    (/\ Called("MongoAggregate")
     /\ OperatorEntriesOnly(built.agg_spec)
     /\ \E c \in Callers : callers[c].pc = "done") =>
        LET want == EntrySelectablesFrom(model.columns, built.agg_spec.entries, 1)
        IN  /\ Selectables(model.columns, built.agg_spec).result = want
            /\ \A c \in Callers :
                    (callers[c].pc = "done" /\ callers[c].result.status = "ok")
                        => callers[c].result = want

=============================================================================
